---- MODULE Spec2Model ----
(***************************************************************************)
(* Model of src/chat.py: the realtime WebSocket exchange of                *)
(* chat_completion (one connection per call: handshake, item creation,     *)
(* response request, event stream) and the part of main that drives it     *)
(* (startup connectivity test, menu, voice-chat loop, transcript           *)
(* extraction, conversation history).  The remote endpoint is an           *)
(* unconstrained environment: on every open connection it may deliver any  *)
(* event of Events, or close.                                              *)
(***************************************************************************)
EXTENDS Integers, Sequences, FiniteSets, TLC

VARIABLES
    pc,                    \* position of main
    exit_code,             \* PyNone while running, else the process status
    conversation_history,  \* main, line 278: list of {"role", "content"}
    printed,               \* the values printed after "AI:" (lines 284, 305, 334)
    spoken,                \* the values handed to speak_text_async in the voice chat
    turns,                 \* recognize_once_async calls made so far
    cc,                    \* cc[k]: the frame of call k of chat_completion
    conns                  \* conns[c]: the c-th connection websockets.connect opened

vars == <<pc, exit_code, conversation_history, printed, spoken, turns, cc, conns>>

\* recognize_once_async calls explored in one run
MaxTurns == 2

\* ------------------------------------------------------------------------
\* Python values
\* ------------------------------------------------------------------------
\* what d.get(key) finds when the dict does not hold the key
Absent == [t |-> "absent"]
PyNone == [t |-> "None"]
PyStr(s) == [t |-> "str", v |-> s]
\* a dict as far as main reads it: its keys, and the list under "output"
PyDict(keys, output) == [t |-> "dict", keys |-> keys, output |-> output]
EmptyDict == PyDict({}, <<>>)

\* d.get(key, default) for a value that is Absent when the key is missing
Get(value, default) == IF value = Absent THEN default ELSE value

\* bool(v): None, "" and {} are false
Truthy(v) ==
    CASE v.t = "None" -> FALSE
      [] v.t = "str"  -> v.v # ""
      [] v.t = "dict" -> v.keys # {}

\* ------------------------------------------------------------------------
\* Wire events
\* ------------------------------------------------------------------------
NoMsg == [type |-> "<no message>"]

\* content parts of an output item
AudioPart(transcript) == [type |-> "audio", transcript |-> PyStr(transcript), text |-> Absent]
AudioPartNoTranscript == [type |-> "audio", transcript |-> Absent, text |-> Absent]
TextPart(text) == [type |-> "text", transcript |-> Absent, text |-> PyStr(text)]
OutputItem(type, role, content) == [type |-> type, role |-> role, content |-> content]
AssistantMessage(content) == OutputItem("message", "assistant", content)

\* the "response" objects the endpoint may put in a response.done event
SampleResponses ==
    { EmptyDict,
      PyDict({"id"}, <<>>),
      PyDict({"output"}, <<>>),
      PyDict({"output"}, <<AssistantMessage(<<AudioPart("A")>>)>>),
      PyDict({"output"}, <<AssistantMessage(<<AudioPart("A"), AudioPart("B")>>)>>),
      PyDict({"output"}, <<AssistantMessage(<<AudioPart("A")>>),
                           AssistantMessage(<<AudioPart("B")>>)>>),
      PyDict({"output"}, <<AssistantMessage(<<TextPart("T")>>)>>),
      PyDict({"output"}, <<AssistantMessage(<<TextPart("T"), AudioPart("A")>>)>>),
      PyDict({"output"}, <<AssistantMessage(<<AudioPartNoTranscript>>)>>),
      PyDict({"output"}, <<AssistantMessage(<<AudioPart("")>>),
                           AssistantMessage(<<AudioPart("A")>>)>>),
      PyDict({"output"}, <<OutputItem("message", "user", <<AudioPart("B")>>),
                           AssistantMessage(<<AudioPart("A")>>)>>),
      PyDict({"output"}, <<OutputItem("function_call", "assistant", <<AudioPart("B")>>)>>) }

\* the "error" objects of error-carrying events
ErrorObject(message) == [t |-> "error", message |-> message]
ErrorDetails == {ErrorObject("rate limited")}

\* an inbound event as chat_completion reads it: "type", and "error",
\* session.id and "response", each Absent when the key is missing
Event(type, error, session, response) ==
    [type |-> type, error |-> error, session |-> session, response |-> response]

Events ==
    { Event("session.created", e, s, Absent) :
          e \in ErrorDetails \cup {Absent}, s \in {PyStr("s1"), Absent} }
    \cup { Event(t, e, Absent, Absent) :
          t \in {"conversation.item.created", "error", "response.audio.delta"},
          e \in ErrorDetails \cup {Absent} }
    \cup { Event("response.done", e, Absent, r) :
          e \in ErrorDetails \cup {Absent}, r \in SampleResponses \cup {Absent} }

\* ------------------------------------------------------------------------
\* Connections
\* ------------------------------------------------------------------------
\* a connection just opened: nothing sent, nothing delivered
OpenConn == [state |-> "open", sent |-> <<>>, pending |-> NoMsg]

\* a connect that hands out the connection already there
websockets_connect_shared(cs) ==
    IF cs = <<>> THEN [conns |-> <<OpenConn>>, ws |-> 1] ELSE [conns |-> cs, ws |-> 1]

\* websockets.connect (line 49): a new connection for every call
websockets_connect(cs) == [conns |-> Append(cs, OpenConn), ws |-> Len(cs) + 1]

\* an exit that forgets to close
aexit_leak(conn) == [conn EXCEPT !.pending = NoMsg]

\* leaving the "async with" block (line 49), by return or by exception
aexit(conn) == [conn EXCEPT !.state = "closed", !.pending = NoMsg]

\* websocket.send on an open connection (send_message, line 24)
send_message(conn, message) == [conn EXCEPT !.sent = Append(@, message)]

\* ------------------------------------------------------------------------
\* chat_completion
\* ------------------------------------------------------------------------
MainCall == 1
Calls == {1, 2}

NoResult == [kind |-> "none"]
Return(value) == [kind |-> "return", value |-> value]
Raise(exc, msg, detail) == [kind |-> "raise", exc |-> exc, msg |-> msg, detail |-> detail]

IdleCall == [pc |-> "idle", messages |-> <<>>, session_id |-> PyNone, ws |-> 0,
             result |-> NoResult]
\* chat_completion(deployment, messages, None) entered (line 33)
Invoke(messages) == [IdleCall EXCEPT !.pc = "connect", !.messages = messages]
\* chat_completion(deployment, messages, session_id) entered with a session
\* id of the caller's (line 33)
InvokeWith(messages, session_id) ==
    [IdleCall EXCEPT !.pc = "connect", !.messages = messages, !.session_id = session_id]

Message(role, content) == [role |-> role, content |-> content]

\* a conversion that hands the parts over newest first
RECURSIVE content_messages_reversed(_)
content_messages_reversed(messages) ==
    IF messages = <<>> THEN <<>>
    ELSE content_messages_reversed(Tail(messages))
         \o <<[type |-> "input_text", text |-> Head(messages).content]>>

\* a conversion that keeps the newest turn only
content_messages_latest_only(messages) ==
    IF messages = <<>> THEN <<>>
    ELSE <<[type |-> "input_text", text |-> messages[Len(messages)].content]>>

\* lines 62-67
RECURSIVE content_messages(_)
content_messages(messages) ==
    IF messages = <<>> THEN <<>>
    ELSE <<[type |-> "input_text", text |-> Head(messages).content]>>
         \o content_messages(Tail(messages))

\* lines 70-77
create_item_request(messages) ==
    [type |-> "conversation.item.create",
     item |-> [type |-> "message", role |-> "user",
               content |-> content_messages(messages)]]

\* lines 93-96
response_request == [type |-> "response.create", response |-> EmptyDict]

\* a handshake that takes any event without an error field, of any type
handshake_any_type(e) ==
    IF e.error # Absent
    THEN [ok |-> FALSE, session_id |-> PyNone,
          result |-> Raise("Exception", "Session initialization error", e.error)]
    ELSE [ok |-> TRUE, session_id |-> Get(e.session, PyNone), result |-> NoResult]

\* lines 54-58: the first event received on the connection
handshake(e) ==
    IF e.type # "session.created"
    THEN [ok |-> FALSE, session_id |-> PyNone,
          result |-> Raise("Exception", "Expected session.created event, got", e)]
    ELSE [ok |-> TRUE,
          session_id |-> Get(e.session, PyNone),
          result |-> NoResult]

\* a reply test that lets every event without an error field pass
item_reply_any_type(e) ==
    IF e.error # Absent
    THEN [ok |-> FALSE,
          result |-> Raise("Exception", "Conversation item creation error", e.error)]
    ELSE [ok |-> TRUE, result |-> NoResult]

\* lines 84-90: the event received after conversation.item.create was sent
item_reply(e) ==
    IF e.error # Absent
    THEN [ok |-> FALSE,
          result |-> Raise("Exception", "Conversation item creation error", e.error)]
    ELSE IF e.type # "conversation.item.created"
    THEN [ok |-> FALSE,
          result |-> Raise("Exception", "Expected conversation.item.created event", Absent)]
    ELSE [ok |-> TRUE, result |-> NoResult]

\* a stream loop that looks at the type before the error field
stream_event_type_first(e) ==
    IF e.type = "response.done"
    THEN [act |-> "break", result |-> Return(Get(e.response, EmptyDict))]
    ELSE IF e.error # Absent
    THEN [act |-> "raise", result |-> Raise("Exception", "API Error", e.error)]
    ELSE IF e.type = "error"
    THEN [act |-> "raise", result |-> Raise("Exception", "Stream Error", EmptyDict)]
    ELSE [act |-> "continue", result |-> NoResult]

\* a loop that takes any event it does not know as the end of the stream
stream_event_unknown_ends(e) ==
    IF e.error # Absent
    THEN [act |-> "raise", result |-> Raise("Exception", "API Error", e.error)]
    ELSE IF e.type = "error"
    THEN [act |-> "raise", result |-> Raise("Exception", "Stream Error", EmptyDict)]
    ELSE [act |-> "break", result |-> Return(Get(e.response, EmptyDict))]

\* lines 107-118: one event of the response stream
stream_event(e) ==
    IF e.error # Absent
    THEN [act |-> "raise", result |-> Raise("Exception", "API Error", e.error)]
    ELSE IF e.type = "response.done"
    THEN [act |-> "break", result |-> Return(Get(e.response, EmptyDict))]
    ELSE IF e.type = "error"
    THEN [act |-> "raise", result |-> Raise("Exception", "Stream Error", EmptyDict)]
    ELSE [act |-> "continue", result |-> NoResult]

\* lines 120-122: recv raised ConnectionClosed inside the stream loop;
\* final_response is still None (line 101)
stream_closed == Return(PyNone)

\* recv or send raised ConnectionClosed outside the stream loop's try
ConnectionClosed == Raise("ConnectionClosed", "", Absent)

\* websockets.connect raised: no connection was opened
ConnectError == Raise("ConnectError", "", Absent)

\* the call is over: the exit of the "async with" block (line 49) has closed
\* the connection, if one was opened, and the result is the caller's
Finish(k, result) ==
    /\ cc' = [cc EXCEPT ![k].pc = "done", ![k].result = result]
    /\ conns' = IF cc[k].ws = 0 THEN conns
                ELSE [conns EXCEPT ![cc[k].ws] = aexit(@)]

\* the event just read decides the result (a raise or the return of line
\* 127): the function leaves the "async with" block, whose exit awaits the
\* close of a connection that is still open (the call waits in `closing`);
\* on a connection the peer has closed the exit is done at once
Leave(k, result, closing) ==
    IF conns[cc[k].ws].state = "open"
    THEN /\ cc' = [cc EXCEPT ![k].pc = closing, ![k].result = result]
         /\ conns' = [conns EXCEPT ![cc[k].ws].pending = NoMsg]
    ELSE Finish(k, result)

\* receive_message returns the next delivered event (line 29)
HasMessage(k) == cc[k].ws # 0 /\ conns[cc[k].ws].pending # NoMsg
\* receive_message raises ConnectionClosed: closed by the peer, nothing left to read
RecvClosed(k) ==
    /\ cc[k].ws # 0
    /\ conns[cc[k].ws].state = "remote_closed"
    /\ conns[cc[k].ws].pending = NoMsg

\* a send that puts `message` on the wire twice
Send_twice(k, message, next) ==
    IF conns[cc[k].ws].state # "open" THEN Finish(k, ConnectionClosed)
    ELSE /\ conns' = [conns EXCEPT ![cc[k].ws] = send_message(send_message(@, message), message)]
         /\ cc' = [cc EXCEPT ![k].pc = next]

\* await send_message(websocket, message) is resumed (line 24): the message
\* goes out and the call moves on, or the connection is closed by then and
\* the send raises ConnectionClosed
Send(k, message, next) ==
    IF conns[cc[k].ws].state # "open" THEN Finish(k, ConnectionClosed)
    ELSE /\ conns' = [conns EXCEPT ![cc[k].ws] = send_message(@, message)]
         /\ cc' = [cc EXCEPT ![k].pc = next]

\* ------------------------------------------------------------------------
\* main
\* ------------------------------------------------------------------------
PyInt(n) == [t |-> "int", v |-> n]

\* line 279
system_turn ==
    Message("system",
            PyStr("You are a helpful assistant. Keep your responses concise and natural."))
\* line 283
welcome_msg ==
    PyStr("Hello! I'm your AI assistant. You can start speaking when you see 'Listening...'. Say 'exit' when you're done.")
\* line 304
goodbye_msg == PyStr("Goodbye! Have a great day!")
\* line 341
error_msg == PyStr("I encountered an error processing your request. Please try again.")
\* line 348
nomatch_msg == PyStr("Sorry, I couldn't understand that. Please try speaking again.")
\* line 353
canceled_msg == PyStr("Sorry, there was an issue with speech recognition. Please try again.")

\* what the user may say in a turn (other than "exit" and silence)
Utterances == {"hi"}

\* lines 326-329: the inner loop stops at the first part of type "audio"
RECURSIVE scan_content(_, _)
scan_content(content, i) ==
    IF i > Len(content) THEN [found |-> FALSE, transcript |-> PyNone]
    ELSE IF content[i].type = "audio"
    THEN [found |-> TRUE, transcript |-> Get(content[i].transcript, PyStr(""))]
    ELSE scan_content(content, i + 1)

\* lines 324-329: the outer loop visits every item of the list it started on;
\* `response` is what the rebinding of line 328 has left in the variable
RECURSIVE scan_output(_, _, _)
scan_output(output, i, response) ==
    IF i > Len(output) THEN response
    ELSE IF output[i].type = "message" /\ output[i].role = "assistant"
    THEN LET r == scan_content(output[i].content, 1) IN
           scan_output(output, i + 1, IF r.found THEN r.transcript ELSE response)
    ELSE scan_output(output, i + 1, response)

\* lines 322-329: `response` after the extraction
extract_transcript(response) ==
    IF response.t = "dict" /\ "output" \in response.keys
    THEN scan_output(response.output, 1, response)
    ELSE response

\* lines 316-332: the outcome of the call as the try block sees it
turn_outcome(result) ==
    IF result.kind = "raise" THEN [ok |-> FALSE, response |-> PyNone]
    ELSE LET response == extract_transcript(result.value) IN
           IF ~Truthy(response) THEN [ok |-> FALSE, response |-> response]
           ELSE [ok |-> TRUE, response |-> response]

\* speak_text_async takes text: handed anything else it may raise
SpeakOutcomes(value) == IF value.t = "str" THEN {TRUE} ELSE {TRUE, FALSE}

\* an except clause that leaves the voice chat, as the one of line 357 does
chat_error_break(said) == [pc |-> "menu", spoken |-> Append(said, error_msg)]

\* lines 340-345: the except clause of a turn: apology spoken, loop continues
chat_error(said) == [pc |-> "listening", spoken |-> Append(said, error_msg)]

Init ==
    /\ pc = "startup"
    /\ exit_code = PyNone
    /\ conversation_history = <<>>
    /\ printed = <<>>
    /\ spoken = <<>>
    /\ turns = 0
    /\ cc = [k \in Calls |-> IdleCall]
    /\ conns = <<>>

MainUnchanged == UNCHANGED <<pc, exit_code, conversation_history, printed, spoken, turns>>

\* line 49: the connection is established
Connect(k) ==
    /\ cc[k].pc = "connect"
    /\ LET r == websockets_connect(conns) IN
         /\ conns' = r.conns
         /\ cc' = [cc EXCEPT ![k].pc = "recv_session", ![k].ws = r.ws]
    /\ MainUnchanged

\* line 49: websockets.connect raises
ConnectFail(k) ==
    /\ cc[k].pc = "connect"
    /\ Finish(k, ConnectError)
    /\ MainUnchanged

\* a handshake step that keeps a session id the caller passed in
RecvSession_sticky(k) ==
    /\ cc[k].pc = "recv_session"
    /\ HasMessage(k)
    /\ LET c == cc[k].ws
           h == handshake(conns[c].pending) IN
         IF ~h.ok THEN Leave(k, h.result, "closing")
         ELSE /\ conns' = [conns EXCEPT ![c].pending = NoMsg]
              /\ cc' = [cc EXCEPT ![k].pc = "send_item",
                                  ![k].session_id =
                                      IF cc[k].session_id # PyNone
                                      THEN cc[k].session_id ELSE h.session_id]
    /\ MainUnchanged

\* lines 51-58: the handshake event is read; on session.created the session
\* id is bound and the call goes on to the send of line 80
RecvSession(k) ==
    /\ cc[k].pc = "recv_session"
    /\ HasMessage(k)
    /\ LET c == cc[k].ws
           h == handshake(conns[c].pending) IN
         IF ~h.ok THEN Leave(k, h.result, "closing")
         ELSE /\ conns' = [conns EXCEPT ![c].pending = NoMsg]
              /\ cc' = [cc EXCEPT ![k].pc = "send_item", ![k].session_id = h.session_id]
    /\ MainUnchanged

\* line 51: the connection closes before any event arrives
RecvSessionClosed(k) ==
    /\ cc[k].pc = "recv_session"
    /\ RecvClosed(k)
    /\ Finish(k, ConnectionClosed)
    /\ MainUnchanged

\* lines 61-80: the conversation item is built from `messages` and sent
SendItem(k) ==
    /\ cc[k].pc = "send_item"
    /\ Send(k, create_item_request(cc[k].messages), "recv_item")
    /\ MainUnchanged

\* lines 81-90: the reply to conversation.item.create is read; on
\* conversation.item.created the call goes on to the send of line 99
RecvItem(k) ==
    /\ cc[k].pc = "recv_item"
    /\ HasMessage(k)
    /\ LET c == cc[k].ws
           r == item_reply(conns[c].pending) IN
         IF ~r.ok THEN Leave(k, r.result, "closing")
         ELSE /\ conns' = [conns EXCEPT ![c].pending = NoMsg]
              /\ cc' = [cc EXCEPT ![k].pc = "send_response"]
    /\ MainUnchanged

\* line 81: the connection closes instead of a reply
RecvItemClosed(k) ==
    /\ cc[k].pc = "recv_item"
    /\ RecvClosed(k)
    /\ Finish(k, ConnectionClosed)
    /\ MainUnchanged

\* lines 93-99: the response is requested
SendResponse(k) ==
    /\ cc[k].pc = "send_response"
    /\ Send(k, response_request, "recv_stream")
    /\ MainUnchanged

\* lines 102-118: one pass of the stream loop
RecvStream(k) ==
    /\ cc[k].pc = "recv_stream"
    /\ HasMessage(k)
    /\ LET c == cc[k].ws
           r == stream_event(conns[c].pending) IN
         IF r.act = "continue"
         THEN /\ conns' = [conns EXCEPT ![c].pending = NoMsg]
              /\ UNCHANGED cc
         ELSE Leave(k, r.result, "closing")
    /\ MainUnchanged

\* lines 120-127: the connection closes during the stream
RecvStreamClosed(k) ==
    /\ cc[k].pc = "recv_stream"
    /\ RecvClosed(k)
    /\ Finish(k, stream_closed)
    /\ MainUnchanged

\* line 49: the close awaited by the exit of "async with" is over; the
\* raise or return that was on its way reaches the caller
ExitAsyncWith(k) ==
    /\ cc[k].pc = "closing"
    /\ Finish(k, cc[k].result)
    /\ MainUnchanged

\* what SPEECH_KEY and SPEECH_REGION may hold in the environment (lines 167-168)
SpeechSettings == {PyNone, PyStr(""), PyStr("set")}

\* lines 164-182: the speech configuration is built unless a setting is
\* missing or empty, and then ValueError is raised
initialize_speech_services(speech_key, speech_region) ==
    IF Truthy(speech_key) /\ Truthy(speech_region)
    THEN [ok |-> TRUE, result |-> NoResult]
    ELSE [ok |-> FALSE,
          result |-> Raise("ValueError",
                           "Missing required Speech Services configuration", Absent)]

\* line 188: parser.parse_args() ends the program by SystemExit, which the
\* except clause of line 214 does not catch: status 0 for --help, status 2
\* for an argument it does not know
ParseArgsExits ==
    /\ pc = "startup"
    /\ pc' = "exited"
    /\ \E status \in {PyInt(0), PyInt(2)} : exit_code' = status
    /\ UNCHANGED <<conversation_history, printed, spoken, turns, cc, conns>>

\* lines 206-216: the speech services cannot be initialized; the except
\* clause ends the program before any call is made
StartupFail ==
    /\ pc = "startup"
    /\ \E speech_key \in SpeechSettings, speech_region \in SpeechSettings :
          ~initialize_speech_services(speech_key, speech_region).ok
    /\ pc' = "exited"
    /\ exit_code' = PyInt(1)
    /\ UNCHANGED <<conversation_history, printed, spoken, turns, cc, conns>>

\* lines 206-211: the services are initialized and the connectivity test is
\* started
StartTest ==
    /\ pc = "startup"
    /\ \E speech_key \in SpeechSettings, speech_region \in SpeechSettings :
          initialize_speech_services(speech_key, speech_region).ok
    /\ cc[MainCall].pc = "idle"
    /\ cc' = [cc EXCEPT ![MainCall] = Invoke(<<Message("user", PyStr("test"))>>)]
    /\ pc' = "test"
    /\ UNCHANGED <<exit_code, conversation_history, printed, spoken, turns, conns>>

\* lines 211-216: the test call is over; an exception ends the program
TestDone ==
    /\ pc = "test"
    /\ cc[MainCall].pc = "done"
    /\ IF cc[MainCall].result.kind = "raise"
       THEN pc' = "exited" /\ exit_code' = PyInt(1)
       ELSE pc' = "menu" /\ UNCHANGED exit_code
    /\ UNCHANGED <<conversation_history, printed, spoken, turns, cc, conns>>

\* lines 270-287: choice 3, a voice chat begins with a fresh history
ChooseVoiceChat ==
    /\ pc = "menu"
    /\ conversation_history' = <<system_turn>>
    /\ printed' = Append(printed, welcome_msg)
    /\ spoken' = Append(spoken, welcome_msg)
    /\ pc' = "listening"
    /\ UNCHANGED <<exit_code, turns, cc, conns>>

\* lines 368-370: choice 4, main returns
ChooseExit ==
    /\ pc = "menu"
    /\ pc' = "exited"
    /\ exit_code' = PyInt(0)
    /\ UNCHANGED <<conversation_history, printed, spoken, turns, cc, conns>>

\* lines 226 and 366, 375-378: input() raises EOFError (standard input is at
\* its end); the except clause of line 375 prints it and calls input() again,
\* which raises out of main: the program ends with a traceback and status 1
MenuInputFails ==
    /\ pc = "menu"
    /\ pc' = "exited"
    /\ exit_code' = PyInt(1)
    /\ UNCHANGED <<conversation_history, printed, spoken, turns, cc, conns>>

\* lines 294-299: speech recognized, empty after strip
HearNothing ==
    /\ pc = "listening"
    /\ turns < MaxTurns
    /\ turns' = turns + 1
    /\ UNCHANGED <<pc, exit_code, conversation_history, printed, spoken, cc, conns>>

\* lines 303-308: "exit" ends the voice chat
HearExit ==
    /\ pc = "listening"
    /\ turns < MaxTurns
    /\ turns' = turns + 1
    /\ printed' = Append(printed, goodbye_msg)
    /\ spoken' = Append(spoken, goodbye_msg)
    /\ pc' = "menu"
    /\ UNCHANGED <<exit_code, conversation_history, cc, conns>>

\* lines 310-320: the utterance is appended and chat_completion is called
\* with the whole history
HearUtterance(text) ==
    /\ pc = "listening"
    /\ turns < MaxTurns
    /\ turns' = turns + 1
    /\ conversation_history' = Append(conversation_history, Message("user", PyStr(text)))
    /\ cc' = [cc EXCEPT ![MainCall] = Invoke(conversation_history')]
    /\ pc' = "thinking"
    /\ UNCHANGED <<exit_code, printed, spoken, conns>>

\* lines 347-350
HearNoMatch ==
    /\ pc = "listening"
    /\ turns < MaxTurns
    /\ turns' = turns + 1
    /\ spoken' = Append(spoken, nomatch_msg)
    /\ UNCHANGED <<pc, exit_code, conversation_history, printed, cc, conns>>

\* lines 352-355
HearCanceled ==
    /\ pc = "listening"
    /\ turns < MaxTurns
    /\ turns' = turns + 1
    /\ spoken' = Append(spoken, canceled_msg)
    /\ UNCHANGED <<pc, exit_code, conversation_history, printed, cc, conns>>

\* a handler whose except clause takes the failed user turn back out
HandleResponse_rollback ==
    /\ pc = "thinking"
    /\ cc[MainCall].pc = "done"
    /\ LET o == turn_outcome(cc[MainCall].result) IN
         IF ~o.ok
         THEN /\ pc' = chat_error(spoken).pc
              /\ spoken' = chat_error(spoken).spoken
              /\ conversation_history' =
                     SubSeq(conversation_history, 1, Len(conversation_history) - 1)
              /\ UNCHANGED printed
         ELSE /\ printed' = Append(printed, o.response)
              /\ conversation_history' =
                     Append(conversation_history, Message("assistant", o.response))
              /\ \E speak_ok \in SpeakOutcomes(o.response) :
                     IF speak_ok
                     THEN pc' = "listening" /\ spoken' = Append(spoken, o.response)
                     ELSE /\ pc' = chat_error(spoken).pc
                          /\ spoken' = chat_error(spoken).spoken
    /\ UNCHANGED <<exit_code, turns, cc, conns>>

\* lines 316-345: chat_completion is over; the reply is extracted, shown,
\* appended and spoken, or the except clause apologises
HandleResponse ==
    /\ pc = "thinking"
    /\ cc[MainCall].pc = "done"
    /\ LET o == turn_outcome(cc[MainCall].result) IN
         IF ~o.ok
         THEN /\ pc' = chat_error(spoken).pc
              /\ spoken' = chat_error(spoken).spoken
              /\ UNCHANGED <<conversation_history, printed>>
         ELSE /\ printed' = Append(printed, o.response)
              /\ conversation_history' =
                     Append(conversation_history, Message("assistant", o.response))
              /\ \E speak_ok \in SpeakOutcomes(o.response) :
                     IF speak_ok
                     THEN pc' = "listening" /\ spoken' = Append(spoken, o.response)
                     ELSE /\ pc' = chat_error(spoken).pc
                          /\ spoken' = chat_error(spoken).spoken
    /\ UNCHANGED <<exit_code, turns, cc, conns>>

MainStep ==
    \/ ParseArgsExits
    \/ StartupFail
    \/ StartTest
    \/ TestDone
    \/ ChooseVoiceChat
    \/ ChooseExit
    \/ MenuInputFails
    \/ HearNothing
    \/ HearExit
    \/ \E text \in Utterances : HearUtterance(text)
    \/ HearNoMatch
    \/ HearCanceled
    \/ HandleResponse

\* one step of call k of chat_completion
CallStep(k) ==
    \/ Connect(k)
    \/ ConnectFail(k)
    \/ RecvSession(k)
    \/ RecvSessionClosed(k)
    \/ SendItem(k)
    \/ RecvItem(k)
    \/ RecvItemClosed(k)
    \/ SendResponse(k)
    \/ RecvStream(k)
    \/ RecvStreamClosed(k)
    \/ ExitAsyncWith(k)

\* ------------------------------------------------------------------------
\* The remote endpoint
\* ------------------------------------------------------------------------
\* the endpoint delivers event e on connection c, once the previous one was read
ServerSend(c, e) ==
    /\ conns[c].state = "open"
    /\ conns[c].pending = NoMsg
    /\ conns' = [conns EXCEPT ![c].pending = e]
    /\ UNCHANGED cc
    /\ MainUnchanged

\* the endpoint closes connection c
ServerClose(c) ==
    /\ conns[c].state = "open"
    /\ conns' = [conns EXCEPT ![c].state = "remote_closed"]
    /\ UNCHANGED cc
    /\ MainUnchanged

ServerStep ==
    \/ \E c \in DOMAIN conns, e \in Events : ServerSend(c, e)
    \/ \E c \in DOMAIN conns : ServerClose(c)

\* the program: main, the call it awaits, and the endpoint
Next ==
    \/ MainStep
    \/ CallStep(MainCall)
    \/ ServerStep

Spec == Init /\ [][Next]_vars

\* The event loop resumes a coroutine whose awaited result is there: the
\* steps of chat_completion and of main that wait on no user input are
\* taken once they stay possible.  The endpoint and the user owe nothing.
FairSpec ==
    /\ Spec
    /\ WF_vars(CallStep(MainCall))
    /\ WF_vars(StartTest)
    /\ WF_vars(TestDone)
    /\ WF_vars(HandleResponse)

\* Two calls of chat_completion in flight at once (two tasks of one event
\* loop), each with its own argument list.
CallerMessages ==
    { <<Message("user", PyStr("test"))>>,
      <<system_turn, Message("user", PyStr("hi"))>> }

InitConc ==
    /\ pc = "gather"
    /\ exit_code = PyNone
    /\ conversation_history = <<>>
    /\ printed = <<>>
    /\ spoken = <<>>
    /\ turns = 0
    /\ cc \in [Calls -> {Invoke(m) : m \in CallerMessages}]
    /\ conns = <<>>

\* the events that differ in what chat_completion itself reads: a
\* response.done event stands for all its payloads
ControlEvents == {e \in Events : e.response = Absent}

NextConc ==
    \/ \E k \in Calls : CallStep(k)
    \/ \E c \in DOMAIN conns, e \in ControlEvents : ServerSend(c, e)
    \/ \E c \in DOMAIN conns : ServerClose(c)

ConcSpec == InitConc /\ [][NextConc]_vars

\* ------------------------------------------------------------------------
\* initialize_session (lines 129-162) and negotiation attempts side by side
\* ------------------------------------------------------------------------
\* the deployment name (os.getenv, line 207)
deployment == PyStr("deployment")

\* lines 144-150
session_create_request ==
    [type |-> "session.create",
     session |-> [deployment_id |-> deployment, output_format |-> "text"]]

\* initialize_session(deployment) entered (line 129)
InvokeInit == [IdleCall EXCEPT !.pc = "init_connect"]

\* lines 158-162: the one event initialize_session receives
initialize_reply(e) ==
    IF e.error # Absent
    THEN Raise("Exception", "Session initialization error", e.error)
    ELSE Return(Get(e.session, PyNone))

\* line 142: the connection is established
InitSessionConnect(k) ==
    /\ cc[k].pc = "init_connect"
    /\ LET r == websockets_connect(conns) IN
         /\ conns' = r.conns
         /\ cc' = [cc EXCEPT ![k].pc = "init_send", ![k].ws = r.ws]
    /\ MainUnchanged

\* line 142: websockets.connect raises
InitSessionConnectFail(k) ==
    /\ cc[k].pc = "init_connect"
    /\ Finish(k, ConnectError)
    /\ MainUnchanged

\* line 153: session.create is sent before anything is received
InitSessionSend(k) ==
    /\ cc[k].pc = "init_send"
    /\ Send(k, session_create_request, "init_recv")
    /\ MainUnchanged

\* lines 155-162: the reply is read; the function returns or raises
InitSessionRecv(k) ==
    /\ cc[k].pc = "init_recv"
    /\ HasMessage(k)
    /\ Leave(k, initialize_reply(conns[cc[k].ws].pending), "init_closing")
    /\ MainUnchanged

\* line 155: the connection closes before the reply
InitSessionRecvClosed(k) ==
    /\ cc[k].pc = "init_recv"
    /\ RecvClosed(k)
    /\ Finish(k, ConnectionClosed)
    /\ MainUnchanged

\* line 142: the close awaited by the exit of "async with" is over
InitSessionExit(k) ==
    /\ cc[k].pc = "init_closing"
    /\ Finish(k, cc[k].result)
    /\ MainUnchanged

\* one step of call k of initialize_session
InitSessionStep(k) ==
    \/ InitSessionConnect(k)
    \/ InitSessionConnectFail(k)
    \/ InitSessionSend(k)
    \/ InitSessionRecv(k)
    \/ InitSessionRecvClosed(k)
    \/ InitSessionExit(k)

\* session ids a caller may pass to chat_completion (line 33)
CallerSessionIds == {PyNone, PyStr("s0")}

\* the negotiation attempts a caller can make
Negotiations ==
    { InvokeWith(<<Message("user", PyStr("test"))>>, sid) : sid \in CallerSessionIds }
    \cup {InvokeInit}

\* two attempts started by one caller, in any order and overlap
InitNeg ==
    /\ pc = "gather"
    /\ exit_code = PyNone
    /\ conversation_history = <<>>
    /\ printed = <<>>
    /\ spoken = <<>>
    /\ turns = 0
    /\ cc \in [Calls -> Negotiations]
    /\ conns = <<>>

NextNeg ==
    \/ \E k \in Calls : CallStep(k)
    \/ \E k \in Calls : InitSessionStep(k)
    \/ \E c \in DOMAIN conns, e \in ControlEvents : ServerSend(c, e)
    \/ \E c \in DOMAIN conns : ServerClose(c)

NegSpec == InitNeg /\ [][NextNeg]_vars

\* ------------------------------------------------------------------------
\* send_message and receive_message on the wire (lines 22-31): the JSON text
\* ------------------------------------------------------------------------
\* the longest text drawn for a content part
MaxTextLen == 2

\* a text is a sequence of characters; these are the kinds json.dumps tells
\* apart: a plain one, the quote, the backslash, a non-ASCII one, and a comma
\* (plain inside a string, a separator outside)
Chars == {"a", "\"", "\\", "<e-acute>", ","}
Texts == UNION { [1..n -> Chars] : n \in 0..MaxTextLen }

\* the values json handles here
JStr(s) == [j |-> "str", s |-> s]
JArr(items) == [j |-> "arr", items |-> items]
JObj(members) == [j |-> "obj", members |-> members]
\* json.loads raises
JError == [j |-> "error"]

\* lines 62-67, for texts given as character sequences
input_text_parts(texts) ==
    [i \in 1..Len(texts) |->
        JObj(<< <<(<<"type">>), JStr(<<"input_text">>)>>,
                <<(<<"text">>), JStr(texts[i])>> >>)]

\* lines 70-77, with the role left open
item_event(role, texts) ==
    JObj(<< <<(<<"type">>), JStr(<<"conversation.item.create">>)>>,
            <<(<<"item">>),
              JObj(<< <<(<<"type">>), JStr(<<"message">>)>>,
                      <<(<<"role">>), JStr(role)>>,
                      <<(<<"content">>), JArr(input_text_parts(texts))>> >>)>> >>)

\* an encoder that writes the backslash as it is
json_escape_char_raw_backslash(ch) ==
    CASE ch = "\"" -> <<"\\", "\"">>
      [] ch = "<e-acute>" -> <<"\\", "u00e9">>
      [] OTHER -> <<ch>>

\* json.dumps (line 24) on one character of a string, ensure_ascii as by
\* default: quote and backslash get a backslash, non-ASCII becomes \uXXXX
json_escape_char(ch) ==
    CASE ch = "\"" -> <<"\\", "\"">>
      [] ch = "\\" -> <<"\\", "\\">>
      [] ch = "<e-acute>" -> <<"\\", "u00e9">>
      [] OTHER -> <<ch>>

RECURSIVE json_escape(_)
json_escape(s) ==
    IF s = <<>> THEN <<>> ELSE json_escape_char(Head(s)) \o json_escape(Tail(s))

json_string(s) == <<"\"">> \o json_escape(s) \o <<"\"">>

\* json.dumps (line 24): the text of a value, with the default separators
RECURSIVE json_dumps(_)
RECURSIVE dumps_items(_, _)
RECURSIVE dumps_members(_, _)
json_dumps(v) ==
    CASE v.j = "str" -> json_string(v.s)
      [] v.j = "arr" -> <<"[">> \o dumps_items(v.items, 1) \o <<"]">>
      [] v.j = "obj" -> <<"{">> \o dumps_members(v.members, 1) \o <<"}">>
dumps_items(items, i) ==
    IF i > Len(items) THEN <<>>
    ELSE (IF i > 1 THEN <<",", " ">> ELSE <<>>)
         \o json_dumps(items[i]) \o dumps_items(items, i + 1)
dumps_members(members, i) ==
    IF i > Len(members) THEN <<>>
    ELSE (IF i > 1 THEN <<",", " ">> ELSE <<>>)
         \o json_string(members[i][1]) \o <<":", " ">>
         \o json_dumps(members[i][2]) \o dumps_members(members, i + 1)

\* json.loads (line 30), scanning: a string body from position i on, up to
\* the closing quote, with the escapes undone
RECURSIVE lex_string(_, _, _)
lex_string(w, i, acc) ==
    IF i > Len(w) THEN [ok |-> FALSE, s |-> <<>>, next |-> i]
    ELSE IF w[i] = "\"" THEN [ok |-> TRUE, s |-> acc, next |-> i + 1]
    ELSE IF w[i] = "\\"
    THEN IF i + 1 > Len(w) THEN [ok |-> FALSE, s |-> <<>>, next |-> i]
         ELSE IF w[i + 1] \in {"\"", "\\"}
         THEN lex_string(w, i + 2, Append(acc, w[i + 1]))
         ELSE IF w[i + 1] = "u00e9"
         THEN lex_string(w, i + 2, Append(acc, "<e-acute>"))
         ELSE [ok |-> FALSE, s |-> <<>>, next |-> i]
    ELSE lex_string(w, i + 1, Append(acc, w[i]))

\* json.loads, scanning: the tokens of a text; blanks between them are skipped
RECURSIVE lex(_, _)
lex(w, i) ==
    IF i > Len(w) THEN <<>>
    ELSE IF w[i] = " " THEN lex(w, i + 1)
    ELSE IF w[i] = "\""
    THEN LET r == lex_string(w, i + 1, <<>>) IN
           IF r.ok THEN <<[k |-> "s", p |-> "", s |-> r.s]>> \o lex(w, r.next)
           ELSE <<[k |-> "bad", p |-> "", s |-> <<>>]>>
    ELSE IF w[i] \in {"{", "}", "[", "]", ":", ","}
    THEN <<[k |-> "p", p |-> w[i], s |-> <<>>]>> \o lex(w, i + 1)
    ELSE <<[k |-> "bad", p |-> "", s |-> <<>>]>>

IsPunct(toks, i, p) == i <= Len(toks) /\ toks[i].k = "p" /\ toks[i].p = p
ParseFail == [ok |-> FALSE, value |-> JError, next |-> 0]

\* json.loads, parsing: the value that starts at token i
RECURSIVE parse_value(_, _)
RECURSIVE parse_items(_, _, _)
RECURSIVE parse_members(_, _, _)
parse_value(toks, i) ==
    IF i > Len(toks) THEN ParseFail
    ELSE IF toks[i].k = "s" THEN [ok |-> TRUE, value |-> JStr(toks[i].s), next |-> i + 1]
    ELSE IF IsPunct(toks, i, "[")
    THEN IF IsPunct(toks, i + 1, "]")
         THEN [ok |-> TRUE, value |-> JArr(<<>>), next |-> i + 2]
         ELSE parse_items(toks, i + 1, <<>>)
    ELSE IF IsPunct(toks, i, "{")
    THEN IF IsPunct(toks, i + 1, "}")
         THEN [ok |-> TRUE, value |-> JObj(<<>>), next |-> i + 2]
         ELSE parse_members(toks, i + 1, <<>>)
    ELSE ParseFail
parse_items(toks, i, acc) ==
    LET r == parse_value(toks, i) IN
      IF ~r.ok THEN ParseFail
      ELSE IF IsPunct(toks, r.next, ",")
      THEN parse_items(toks, r.next + 1, Append(acc, r.value))
      ELSE IF IsPunct(toks, r.next, "]")
      THEN [ok |-> TRUE, value |-> JArr(Append(acc, r.value)), next |-> r.next + 1]
      ELSE ParseFail
parse_members(toks, i, acc) ==
    IF ~(i <= Len(toks) /\ toks[i].k = "s" /\ IsPunct(toks, i + 1, ":")) THEN ParseFail
    ELSE LET r == parse_value(toks, i + 2) IN
      IF ~r.ok THEN ParseFail
      ELSE IF IsPunct(toks, r.next, ",")
      THEN parse_members(toks, r.next + 1, Append(acc, <<toks[i].s, r.value>>))
      ELSE IF IsPunct(toks, r.next, "}")
      THEN [ok |-> TRUE, value |-> JObj(Append(acc, <<toks[i].s, r.value>>)),
            next |-> r.next + 1]
      ELSE ParseFail

\* json.loads (line 30): the value of a text, or the error it raises
json_loads(w) ==
    LET toks == lex(w, 1)
        r == parse_value(toks, 1) IN
      IF r.ok /\ r.next = Len(toks) + 1 THEN r.value ELSE JError

\* the frames of send_message(websocket, message) and receive_message(websocket)
SendFrame(message) == [pc |-> "send_message", message |-> message, response |-> PyNone]
ReceiveFrame == [pc |-> "receive_message", message |-> PyNone, response |-> PyNone]
\* a text frame on the wire
TextFrame(data) == [type |-> "<text frame>", data |-> data]

RoleNames == {<<"user">>, <<"assistant">>, <<"\"">>}
TextLists == {<<>>} \cup { <<t>> : t \in Texts } \cup (Texts \X Texts)

\* one event to send, a peer that echoes it, and a receiver
InitCodec ==
    /\ pc = "codec"
    /\ exit_code = PyNone
    /\ conversation_history = <<>>
    /\ printed = <<>>
    /\ spoken = <<>>
    /\ turns = 0
    /\ \E role \in RoleNames, texts \in TextLists :
          cc = [k \in Calls |-> IF k = 1 THEN SendFrame(item_event(role, texts))
                                         ELSE ReceiveFrame]
    /\ conns = <<OpenConn>>

\* line 24: websocket.send(json.dumps(message)) writes the frame, or raises
\* ConnectionClosed on a connection that is not open and writes nothing
SendMessage ==
    /\ cc[1].pc = "send_message"
    /\ IF conns[1].state = "open"
       THEN /\ conns' = [conns EXCEPT ![1].sent = Append(@, json_dumps(cc[1].message))]
            /\ cc' = [cc EXCEPT ![1].pc = "in_send"]
       ELSE /\ cc' = [cc EXCEPT ![1].pc = "raised"]
            /\ UNCHANGED conns
    /\ MainUnchanged

\* lines 24-25: the awaited send is over and send_message returns
SendMessageReturns ==
    /\ cc[1].pc = "in_send"
    /\ cc' = [cc EXCEPT ![1].pc = "done"]
    /\ UNCHANGED conns
    /\ MainUnchanged

\* the peer sends the text back as it got it
Echo ==
    /\ conns[1].state = "open"
    /\ conns[1].sent # <<>>
    /\ cc[2].pc = "receive_message"
    /\ conns[1].pending = NoMsg
    /\ conns' = [conns EXCEPT ![1].pending = TextFrame(conns[1].sent[1])]
    /\ UNCHANGED cc
    /\ MainUnchanged

\* line 29: websocket.recv() raises ConnectionClosed
ReceiveMessageClosed ==
    /\ cc[2].pc = "receive_message"
    /\ conns[1].state = "remote_closed"
    /\ conns[1].pending = NoMsg
    /\ cc' = [cc EXCEPT ![2].pc = "raised"]
    /\ UNCHANGED conns
    /\ MainUnchanged

\* lines 27-31: json.loads(websocket.recv())
ReceiveMessage ==
    /\ cc[2].pc = "receive_message"
    /\ conns[1].pending # NoMsg
    /\ cc' = [cc EXCEPT ![2].pc = "done", ![2].response = json_loads(conns[1].pending.data)]
    /\ conns' = [conns EXCEPT ![1].pending = NoMsg]
    /\ MainUnchanged

NextCodec ==
    \/ SendMessage
    \/ SendMessageReturns
    \/ Echo
    \/ ReceiveMessage
    \/ ReceiveMessageClosed
    \/ \E c \in DOMAIN conns : ServerClose(c)

CodecSpec == InitCodec /\ [][NextCodec]_vars

\* ------------------------------------------------------------------------
\* Properties
\* ------------------------------------------------------------------------
\* the event call k is about to read
Pending(k) == conns[cc[k].ws].pending
\* call k waits in receive_message
Receiving(k) == cc[k].pc \in {"recv_session", "recv_item", "recv_stream", "init_recv"}
\* this step is call k reading that event
Reads(k) == Receiving(k) /\ HasMessage(k) /\ conns'[cc[k].ws].pending = NoMsg
\* call k of chat_completion is inside its "async with" block
InFlight(k) ==
    cc[k].pc \in {"recv_session", "send_item", "recv_item", "send_response",
                  "recv_stream", "closing"}
\* call k has decided its result and waits for its connection to close
Closing(k) == cc[k].pc \in {"closing", "init_closing"}
\* this step ends the reading of call k with `result`: the call is over, or
\* it is on its way out with that result; nothing is sent
EndsWith(k, result) ==
    /\ cc'[k].pc \in {"closing", "init_closing", "done"}
    /\ cc'[k].result = result
    /\ conns'[cc[k].ws].sent = conns[cc[k].ws].sent
\* a call on its way out reads nothing and sends nothing, and the one step
\* it takes hands the decided result over and leaves the connection closed
ExitOnly(k) ==
    Closing(k)
       => /\ conns'[cc[k].ws].sent = conns[cc[k].ws].sent
          /\ cc'[k] # cc[k]
                => /\ cc'[k] = [cc[k] EXCEPT !.pc = "done"]
                   /\ conns'[cc[k].ws].state = "closed"
\* this step is main leaving the await of line 316 (lines 322-345 ran)
TurnHandled == pc = "thinking" /\ pc' # "thinking"
\* how many events of type t were sent
CountType(sent, t) == Cardinality({i \in 1..Len(sent) : sent[i].type = t})

\* the reply extraction rule as the specification words it
IsAssistantMessage(item) == item.type = "message" /\ item.role = "assistant"
PartText(part) == IF part.type = "audio" THEN part.transcript ELSE part.text
CarriesTranscript(part) ==
    part.type \in {"audio", "text"} /\ PartText(part) \notin {Absent, PyStr("")}
HasOutput(v) == v.t = "dict" /\ "output" \in v.keys
FirstAssistant(output) ==
    CHOOSE i \in 1..Len(output) :
        /\ IsAssistantMessage(output[i])
        /\ \A j \in 1..(i - 1) : ~IsAssistantMessage(output[j])
FirstTranscript(content) ==
    CHOOSE i \in 1..Len(content) :
        /\ CarriesTranscript(content[i])
        /\ \A j \in 1..(i - 1) : ~CarriesTranscript(content[j])
\* the first assistant message of v carries a transcript
HasReply(v) ==
    /\ HasOutput(v)
    /\ \E i \in 1..Len(v.output) : IsAssistantMessage(v.output[i])
    /\ \E p \in 1..Len(v.output[FirstAssistant(v.output)].content) :
          CarriesTranscript(v.output[FirstAssistant(v.output)].content[p])
SpecReply(v) ==
    LET content == v.output[FirstAssistant(v.output)].content IN
      PartText(content[FirstTranscript(content)])
\* no assistant message of v carries a transcript
NoReply(v) ==
    /\ v.t = "dict"
    /\ HasOutput(v) =>
         \A i \in 1..Len(v.output) :
             IsAssistantMessage(v.output[i]) =>
                 \A p \in 1..Len(v.output[i].content) :
                     ~CarriesTranscript(v.output[i].content[p])

\* C1: when the call returns the payload of a response.done event whose first
\* assistant message carries a transcript, the text shown, spoken and appended
\* as the assistant turn is the transcript of that message's first
\* transcript-carrying part (audio or text), whatever follows it.
C1_ReplyIsFirstTranscript ==
    [][ (/\ TurnHandled
         /\ cc[MainCall].result.kind = "return"
         /\ HasReply(cc[MainCall].result.value))
        => LET reply == SpecReply(cc[MainCall].result.value) IN
             /\ printed' = Append(printed, reply)
             /\ spoken' = Append(spoken, reply)
             /\ conversation_history' =
                    Append(conversation_history, Message("assistant", reply)) ]_vars

\* C2: an event with an error field read as the reply to
\* conversation.item.create or in the response stream, of whatever type, ends
\* the call at that event with an exception carrying the event's error object;
\* nothing is sent then or while the connection is being closed, the
\* exception is what the caller gets, and nothing is ever sent on a closed
\* connection.
C2_ErrorEventEndsTurn ==
    /\ [][ \A k \in Calls :
             (/\ cc[k].pc \in {"recv_item", "recv_stream"}
              /\ Reads(k)
              /\ Pending(k).error # Absent)
             => /\ cc'[k].pc \in {"closing", "done"}
                /\ cc'[k].result.kind = "raise"
                /\ cc'[k].result.detail = Pending(k).error
                /\ conns'[cc[k].ws].sent = conns[cc[k].ws].sent ]_vars
    /\ [][ \A k \in Calls : ExitOnly(k) ]_vars
    /\ [](\A k \in Calls :
            (cc[k].pc = "done" /\ cc[k].ws # 0) => conns[cc[k].ws].state = "closed")
    /\ [][ \A c \in DOMAIN conns :
             conns[c].state = "closed" => conns'[c] = conns[c] ]_vars

\* a call ended by an error event of the stream, after both requests were sent
C2_Witness ==
    \E k \in Calls :
        /\ cc[k].pc = "done"
        /\ cc[k].result.kind = "raise"
        /\ cc[k].result.msg = "API Error"
        /\ cc[k].result.detail \in ErrorDetails
        /\ Len(conns[cc[k].ws].sent) = 2
        /\ conns[cc[k].ws].state = "closed"

\* C3: when the connection closes while the call is in the stream loop, the
\* call ends with a ConnectionClosed error, never with a normal return.
C3_ClosureIsAnError ==
    [][ \A k \in Calls :
          (cc[k].pc = "recv_stream" /\ RecvClosed(k) /\ cc'[k].pc = "done")
          => /\ cc'[k].result.kind = "raise"
             /\ cc'[k].result.exc = "ConnectionClosed" ]_vars

\* C4: when the payload of the response.done event holds no assistant message
\* with a transcript-carrying part, the turn fails: nothing is shown as the
\* reply, no assistant turn is appended, the apology is spoken.
C4_EmptyReplyFails ==
    [][ (/\ TurnHandled
         /\ cc[MainCall].result.kind = "return"
         /\ NoReply(cc[MainCall].result.value))
        => /\ printed' = printed
           /\ conversation_history' = conversation_history
           /\ spoken' = Append(spoken, error_msg) ]_vars

\* C5: nothing is sent before the first event is read; a first event of any
\* type but session.created ends the call with an exception that holds the
\* raw event, and the connection is closed with nothing sent on it; the call
\* goes on to send conversation.item.create only from the handshake, on
\* session.created, with the session id of that event.
C5_HandshakeGate ==
    /\ [](\A k \in Calls :
            cc[k].pc \in {"recv_session", "send_item"} => conns[cc[k].ws].sent = <<>>)
    /\ [][ \A k \in Calls :
             (cc[k].pc = "recv_session" /\ Reads(k))
             => /\ Pending(k).type # "session.created"
                   => /\ EndsWith(k, Raise("Exception",
                                           "Expected session.created event, got",
                                           Pending(k)))
                      /\ conns'[cc[k].ws].sent = <<>>
                /\ cc'[k].pc = "send_item"
                   => /\ Pending(k).type = "session.created"
                      /\ cc'[k].session_id = Get(Pending(k).session, PyNone) ]_vars
    /\ [][ \A k \in Calls :
             /\ (cc'[k].pc = "send_item" /\ cc[k].pc # "send_item")
                   => cc[k].pc = "recv_session" /\ Reads(k)
             /\ (cc'[k].pc = "recv_item" /\ cc[k].pc # "recv_item")
                   => cc[k].pc = "send_item"
             /\ (cc[k].pc = "closing" /\ conns[cc[k].ws].sent = <<>>)
                   => conns'[cc[k].ws].sent = <<>> ]_vars

\* a call ended at the handshake by an event of another type, nothing sent
C5_Witness ==
    \E k \in Calls :
        /\ cc[k].pc = "done"
        /\ cc[k].result.kind = "raise"
        /\ cc[k].result.msg = "Expected session.created event, got"
        /\ cc[k].result.detail.type = "conversation.item.created"
        /\ conns[cc[k].ws].sent = <<>>

\* C6: a first event that carries an error field ends the call whatever its
\* type, with nothing sent on the connection.
C6_HandshakeErrorIsTerminal ==
    [][ \A k \in Calls :
          (cc[k].pc = "recv_session" /\ Reads(k) /\ Pending(k).error # Absent)
          => /\ cc'[k].pc \in {"closing", "done"}
             /\ cc'[k].result.kind = "raise"
             /\ conns'[cc[k].ws].sent = <<>> ]_vars

\* C7: with two calls in flight, every connection carries at most one
\* conversation.item.create and at most one response.create, and no two calls
\* ever hold the same connection.
C7_NoInterleaving ==
    /\ \A c \in DOMAIN conns :
          /\ CountType(conns[c].sent, "conversation.item.create") <= 1
          /\ CountType(conns[c].sent, "response.create") <= 1
    /\ \A k1, k2 \in Calls :
          (k1 # k2 /\ cc[k1].ws # 0) => cc[k1].ws # cc[k2].ws

\* both calls mid-exchange at once, each on its own connection
C7_Witness ==
    /\ cc[1].pc = "recv_stream"
    /\ cc[2].pc = "recv_item"
    /\ Len(conns[cc[1].ws].sent) = 2
    /\ Len(conns[cc[2].ws].sent) = 1

\* the failure kinds of a turn, read off the outcome of the call
TurnFailure(result) ==
    IF result.kind = "raise"
    THEN CASE result.msg = "Conversation item creation error" -> "ItemCreateRejected"
           [] result.msg = "Expected conversation.item.created event" -> "UnexpectedEvent"
           [] result.msg \in {"API Error", "Stream Error"} -> "StreamError"
           [] OTHER -> "Other"
    ELSE IF /\ result.kind = "return"
            /\ result.value.t = "dict"
            /\ ~Truthy(extract_transcript(result.value))
    THEN "EmptyReply"
    ELSE "None"

\* C8: a turn that failed with ItemCreateRejected, UnexpectedEvent, StreamError
\* or EmptyReply is answered by the apology, spoken once, and the loop is back
\* at listening; handling the failure opens no connection and starts no call
\* (one connection per utterance, one request of each kind per connection).
C8_FailedTurnRecovered ==
    /\ [][ (/\ TurnHandled
            /\ TurnFailure(cc[MainCall].result) \in
                  {"ItemCreateRejected", "UnexpectedEvent", "StreamError", "EmptyReply"})
           => /\ pc' = "listening"
              /\ spoken' = Append(spoken, error_msg)
              /\ printed' = printed
              /\ cc' = cc
              /\ conns' = conns ]_vars
    /\ [](Len(conns) <= 1 + turns)
    /\ [](\A c \in DOMAIN conns :
            /\ CountType(conns[c].sent, "conversation.item.create") <= 1
            /\ CountType(conns[c].sent, "response.create") <= 1)

\* a failed turn was apologised for and the next turn completed with a reply
C8_Witness ==
    /\ pc = "listening"
    /\ \E i \in 1..(Len(spoken) - 1) :
          spoken[i] = error_msg /\ spoken[i + 1] = PyStr("A")
    /\ conversation_history[Len(conversation_history)] = Message("assistant", PyStr("A"))

\* C9: a call that is over has closed its connection, whichever way it ended;
\* a connection that is not closed belongs to a call still waiting on it; no
\* connection is open while main is between calls.
C9_ConnectionsClosedOnExit ==
    /\ \A k \in Calls :
          (cc[k].pc = "done" /\ cc[k].ws # 0) => conns[cc[k].ws].state = "closed"
    /\ \A c \in DOMAIN conns :
          conns[c].state # "closed" => \E k \in Calls : InFlight(k) /\ cc[k].ws = c
    /\ pc \in {"menu", "listening", "exited"}
          => \A c \in DOMAIN conns : conns[c].state = "closed"

\* a turn ended by the peer closing during the handshake or item exchange
C9_Witness ==
    /\ pc = "thinking"
    /\ cc[MainCall].pc = "done"
    /\ cc[MainCall].result = ConnectionClosed
    /\ conns[cc[MainCall].ws].state = "closed"

\* C10: a call that has entered the stream loop eventually ends.
C10_StreamLoopEnds ==
    \A k \in Calls : (cc[k].pc = "recv_stream") ~> (cc[k].pc = "done")

\* the content list of the conversation.item.create event call k has sent
SentContent(k) == conns[cc[k].ws].sent[1].item.content
\* call k has sent its conversation.item.create event
ItemSent(k) == InFlight(k) /\ conns[cc[k].ws].sent # <<>>

\* C11 as stated: the conversation.item.create event of a turn carries the
\* new user turn's content and nothing else, however long the conversation.
C11_OnlyNewTurnSent ==
    \A k \in Calls :
        ItemSent(k) =>
            SentContent(k) =
                <<[type |-> "input_text",
                   text |-> cc[k].messages[Len(cc[k].messages)].content]>>

\* C11 amended: the conversation.item.create event of a turn carries the
\* whole conversation handed to the call: the new user turn's content is its
\* last part, the parts before it are the earlier turns, the system turn's
\* first, and it holds only the new turn's content exactly when the
\* conversation has no other turn (as in the startup test).
C11_WholeConversationSent ==
    /\ pc = "thinking" /\ cc[MainCall].pc # "done"
          => /\ cc[MainCall].messages = conversation_history
             /\ conversation_history[Len(conversation_history)].role = "user"
    /\ \A k \in Calls :
          ItemSent(k) =>
              LET content == SentContent(k)
                  messages == cc[k].messages IN
                /\ Len(content) = Len(messages)
                /\ content[Len(content)].text = messages[Len(messages)].content
                /\ \A i \in 1..(Len(messages) - 1) :
                      content[i].text = messages[i].content
                /\ (Len(content) = 1) <=> (Len(messages) = 1)
                /\ pc = "thinking" => content[1].text = system_turn.content

\* the second turn of a voice chat has sent the system turn, the first user
\* turn, the first reply and the new user turn
C11_Witness ==
    /\ pc = "thinking"
    /\ ItemSent(MainCall)
    /\ Len(SentContent(MainCall)) = 4
    /\ SentContent(MainCall)[3].text = PyStr("A")

\* a voice chat is going on (lines 289-360)
InVoiceChat == pc \in {"listening", "thinking"}

\* C12: during a voice chat, whatever its turns come to, the conversation only
\* grows at its end: every step leaves the turns it held where they were and
\* as they were, and its first turn is the system turn.
C12_AppendOnly ==
    /\ [][ InVoiceChat
           => /\ Len(conversation_history') >= Len(conversation_history)
              /\ SubSeq(conversation_history', 1, Len(conversation_history))
                    = conversation_history ]_vars
    /\ [](InVoiceChat
           => /\ conversation_history # <<>>
              /\ conversation_history[1] = system_turn)

\* a failed turn and then a successful one have both been appended to
C12_Witness ==
    /\ pc = "listening"
    /\ Len(conversation_history) = 4
    /\ conversation_history[1] = system_turn
    /\ conversation_history[3].role = "user"
    /\ conversation_history[4].role = "assistant"
    /\ error_msg \in {spoken[i] : i \in DOMAIN spoken}

\* call k wrote, read or closed nothing but its own frame and connection
OwnStateOnly(k) ==
    /\ \A j \in Calls \ {k} : cc'[j] = cc[j]
    /\ \A c \in DOMAIN conns \ {cc[k].ws} : conns'[c] = conns[c]

\* C13: what a negotiation attempt comes to is a function of the event its own
\* connection delivered: success with the session id the event carries, or
\* the failure the event calls for, and that outcome is what the caller gets
\* once the connection is closed. The session id the caller passed in is
\* never the one held after the handshake, and a step of one attempt touches
\* no state of another.
C13_NegotiationIsLocal ==
    /\ [][ \A k \in Calls :
             /\ (cc[k].pc = "recv_session" /\ Reads(k))
                  => /\ OwnStateOnly(k)
                     /\ LET e == Pending(k) IN
                          IF e.type # "session.created"
                          THEN EndsWith(k, Raise("Exception",
                                                 "Expected session.created event, got", e))
                          ELSE /\ cc'[k].pc = "send_item"
                               /\ cc'[k].result = NoResult
                               /\ cc'[k].session_id = Get(e.session, PyNone)
             /\ (cc[k].pc = "init_recv" /\ Reads(k))
                  => /\ OwnStateOnly(k)
                     /\ LET e == Pending(k) IN
                          EndsWith(k, IF e.error # Absent
                                      THEN Raise("Exception",
                                                 "Session initialization error", e.error)
                                      ELSE Return(Get(e.session, PyNone)))
             /\ ExitOnly(k)
             /\ Closing(k) /\ cc'[k] # cc[k] => OwnStateOnly(k) ]_vars
    /\ [](\A k \in Calls :
            cc[k].pc \in {"send_item", "recv_item", "send_response", "recv_stream"}
               => cc[k].session_id \in {PyStr("s1"), PyNone})

\* an attempt has failed at the handshake, and the other one, entered with a
\* session id of the caller's, holds the id its own connection delivered
C13_Witness ==
    /\ cc[1].pc = "done"
    /\ cc[1].result.kind = "raise"
    /\ cc[1].result.msg = "Expected session.created event, got"
    /\ cc[2].pc = "recv_item"
    /\ cc[2].session_id = PyStr("s1")
    /\ conns[cc[2].ws].state = "open"

\* what an event holds under a key, as event[key] reads it
Member(v, key) ==
    IF v.j = "obj" /\ \E i \in DOMAIN v.members : v.members[i][1] = key
    THEN v.members[CHOOSE i \in DOMAIN v.members :
                      /\ v.members[i][1] = key
                      /\ \A n \in DOMAIN v.members : v.members[n][1] = key => n <= i][2]
    ELSE JError
EventRole(v) == Member(Member(v, <<"item">>), <<"role">>)
\* the texts of the content parts, in order
EventTexts(v) ==
    LET content == Member(Member(v, <<"item">>), <<"content">>) IN
      IF content.j = "arr"
      THEN [i \in DOMAIN content.items |-> Member(content.items[i], <<"text">>)]
      ELSE <<JError>>

\* C14: the event receive_message decodes from the text send_message encoded
\* has the role of the event that was sent and its text content parts, as
\* many, in the same order, each character for character.
C14_CodecRoundTrip ==
    cc[2].pc = "done" /\ pc = "codec"
       => /\ EventRole(cc[2].response) = EventRole(cc[1].message)
          /\ EventRole(cc[2].response).j = "str"
          /\ EventTexts(cc[2].response) = EventTexts(cc[1].message)
          /\ \A i \in DOMAIN EventTexts(cc[2].response) :
                EventTexts(cc[2].response)[i].j = "str"
          /\ Member(cc[2].response, <<"type">>) = JStr(<<"conversation.item.create">>)

\* an event with a quote and a backslash in one part and a non-ASCII
\* character and a comma in the next went over the wire and came back
C14_Witness ==
    /\ pc = "codec"
    /\ cc[2].pc = "done"
    /\ EventTexts(cc[1].message) = <<JStr(<<"\"", "\\">>), JStr(<<"<e-acute>", ",">>)>>
    /\ Len(conns[1].sent[1]) > Len(json_dumps(item_event(<<"user">>, <<>>))) + 8

\* the types of the events sent on a connection, in order
SentTypes(conn) == [i \in DOMAIN conn.sent |-> conn.sent[i].type]

\* the rules of the outbound order that hold whether or not a send succeeds:
\* what was sent on a connection is conversation.item.create, then
\* response.create, each at most once and nothing else; each goes out only
\* from the send the call reaches by reading session.created, respectively
\* conversation.item.created; nothing is out before the first, and nothing
\* goes out after response.create
OutboundOrder ==
    /\ [](\A c \in DOMAIN conns :
            SentTypes(conns[c]) \in
               { <<>>,
                 <<"conversation.item.create">>,
                 <<"conversation.item.create", "response.create">> })
    /\ [][ \A c \in DOMAIN conns :
             conns'[c].sent # conns[c].sent
                => \E k \in Calls :
                     /\ cc[k].ws = c
                     /\ \/ /\ cc[k].pc = "send_item"
                           /\ conns[c].sent = <<>>
                           /\ conns'[c].sent = <<create_item_request(cc[k].messages)>>
                           /\ cc'[k].pc = "recv_item"
                        \/ /\ cc[k].pc = "send_response"
                           /\ SentTypes(conns[c]) = <<"conversation.item.create">>
                           /\ conns'[c].sent = Append(conns[c].sent, response_request)
                           /\ cc'[k].pc = "recv_stream" ]_vars
    /\ [][ \A k \in Calls :
             /\ (cc'[k].pc = "send_item" /\ cc[k].pc # "send_item")
                   => /\ cc[k].pc = "recv_session"
                      /\ Reads(k)
                      /\ Pending(k).type = "session.created"
             /\ (cc'[k].pc = "send_response" /\ cc[k].pc # "send_response")
                   => /\ cc[k].pc = "recv_item"
                      /\ Reads(k)
                      /\ Pending(k).type = "conversation.item.created" ]_vars
    /\ [](\A k \in Calls :
            /\ cc[k].pc \in {"recv_session", "send_item"} => conns[cc[k].ws].sent = <<>>
            /\ cc[k].pc \in {"recv_item", "send_response"}
                  => SentTypes(conns[cc[k].ws]) = <<"conversation.item.create">>
            /\ cc[k].pc = "recv_stream"
                  => SentTypes(conns[cc[k].ws])
                        = <<"conversation.item.create", "response.create">>)

\* C15 as stated: the outbound events follow the fixed order, and once
\* session.created has been received conversation.item.create is sent exactly
\* once: the send the call has reached by reading session.created always puts
\* conversation.item.create on the connection.
C15_ItemSentExactlyOnce ==
    /\ OutboundOrder
    /\ [][ \A k \in Calls :
             (cc[k].pc = "send_item" /\ cc'[k] # cc[k])
                => SentTypes(conns'[cc[k].ws]) = <<"conversation.item.create">> ]_vars

\* C15 amended: the outbound events follow the fixed order, and once
\* session.created has been received conversation.item.create is sent at
\* most once: exactly once when the connection is still open at the send, and
\* not at all when the peer has closed it by then; the send then raises
\* ConnectionClosed, the call ends with that error and nothing was ever sent
\* on the connection.
C15_OutboundOrder ==
    /\ OutboundOrder
    /\ [][ \A k \in Calls :
             (cc[k].pc = "send_item" /\ cc'[k] # cc[k])
                => IF conns[cc[k].ws].state = "open"
                   THEN /\ SentTypes(conns'[cc[k].ws]) = <<"conversation.item.create">>
                        /\ cc'[k].pc = "recv_item"
                   ELSE /\ cc'[k].pc = "done"
                        /\ cc'[k].result = ConnectionClosed
                        /\ conns'[cc[k].ws].sent = <<>>
                        /\ conns'[cc[k].ws].state = "closed" ]_vars

\* the test call sent both requests on its connection; in the turn after it
\* the peer closed right after session.created, so that the call holds the
\* session id and ended with ConnectionClosed on a connection nothing was
\* sent on
C15_Witness ==
    /\ pc = "thinking"
    /\ cc[MainCall].pc = "done"
    /\ cc[MainCall].result = ConnectionClosed
    /\ cc[MainCall].session_id = PyStr("s1")
    /\ conns[cc[MainCall].ws].sent = <<>>
    /\ \E c \in DOMAIN conns :
          SentTypes(conns[c]) = <<"conversation.item.create", "response.create">>

\* C16: a failed turn leaves the conversation as it was before the utterance
\* was heard (the thinking state holds it with the new user turn at its end),
\* so the conversation never holds a user turn whose exchange failed, and
\* never two user turns in a row.
C16_FailedTurnLeavesNoTrace ==
    /\ [][ (TurnHandled /\ ~turn_outcome(cc[MainCall].result).ok)
             => conversation_history' =
                   SubSeq(conversation_history, 1, Len(conversation_history) - 1) ]_vars
    /\ [](pc = "listening"
            => conversation_history[Len(conversation_history)].role # "user")
    /\ [](\A i \in 1..(Len(conversation_history) - 1) :
            ~(/\ conversation_history[i].role = "user"
              /\ conversation_history[i + 1].role = "user"))

\* C17: in the stream stage an event without an error field whose type is
\* neither response.done nor error is taken off the connection and nothing
\* else happens: nothing is sent, the call stays where it is with no outcome,
\* no other call and nothing of main changes. Any other event read there
\* decides the outcome, closure likewise: the call reads nothing after it,
\* whatever the endpoint still delivers while the connection is being closed,
\* and the caller gets that outcome from a closed connection.
C17_IntermediateDiscarded ==
    /\ [][ \A k \in Calls :
             (cc[k].pc = "recv_stream" /\ Reads(k))
                => LET e == Pending(k)
                       c == cc[k].ws IN
                     IF e.error = Absent /\ e.type \notin {"response.done", "error"}
                     THEN /\ cc' = cc
                          /\ conns' = [conns EXCEPT ![c].pending = NoMsg]
                          /\ UNCHANGED <<pc, exit_code, conversation_history,
                                         printed, spoken, turns>>
                     ELSE EndsWith(k, IF e.error # Absent
                                      THEN Raise("Exception", "API Error", e.error)
                                      ELSE IF e.type = "response.done"
                                      THEN Return(Get(e.response, EmptyDict))
                                      ELSE Raise("Exception", "Stream Error", EmptyDict)) ]_vars
    /\ [][ \A k \in Calls :
             (cc[k].pc = "recv_stream" /\ RecvClosed(k) /\ cc'[k] # cc[k])
                => /\ cc'[k].pc = "done"
                   /\ cc'[k].result.kind # "none"
                   /\ conns'[cc[k].ws].sent = conns[cc[k].ws].sent ]_vars
    /\ [][ \A k \in Calls :
             /\ ExitOnly(k)
             /\ cc[k].pc = "done"
                   => \/ cc'[k] = cc[k]
                      \/ cc'[k].pc = "connect" ]_vars
    /\ [](\A k \in Calls :
            (cc[k].pc = "done" /\ cc[k].ws # 0)
               => /\ conns[cc[k].ws].pending = NoMsg
                  /\ conns[cc[k].ws].state = "closed")

\* the second turn of a voice chat is in the stream stage and an audio delta
\* is the next event it reads
C17_Witness ==
    /\ pc = "thinking"
    /\ Len(conversation_history) >= 3
    /\ cc[MainCall].pc = "recv_stream"
    /\ Pending(MainCall).type = "response.audio.delta"
    /\ Pending(MainCall).error = Absent

\* C18: the event read directly after conversation.item.create was sent
\* decides the stage: without an error field and of any type other than
\* conversation.item.created, response.audio.delta and response.done included,
\* it ends the call with UnexpectedEvent and response.create is never sent;
\* the call never stays in the stage after reading, and it goes on to send
\* response.create and to the stream stage only by reading
\* conversation.item.created there.
C18_ItemReplyNotSkipped ==
    /\ [][ \A k \in Calls :
             (cc[k].pc = "recv_item" /\ Reads(k))
                => LET e == Pending(k) IN
                     /\ cc'[k].pc # "recv_item"
                     /\ (e.error = Absent /\ e.type # "conversation.item.created")
                           => /\ EndsWith(k, Raise("Exception",
                                     "Expected conversation.item.created event", Absent))
                              /\ TurnFailure(cc'[k].result) = "UnexpectedEvent"
                     /\ cc'[k].pc = "send_response"
                           => /\ e.type = "conversation.item.created"
                              /\ e.error = Absent ]_vars
    /\ [][ \A k \in Calls :
             /\ (cc'[k].pc = "send_response" /\ cc[k].pc # "send_response")
                   => cc[k].pc = "recv_item" /\ Reads(k)
             /\ (cc'[k].pc = "recv_stream" /\ cc[k].pc # "recv_stream")
                   => cc[k].pc = "send_response"
             /\ ExitOnly(k) ]_vars

\* a voice-chat turn ended with UnexpectedEvent before response.create went
\* out, and the apology followed
C18_Witness ==
    /\ pc = "listening"
    /\ cc[MainCall].pc = "done"
    /\ TurnFailure(cc[MainCall].result) = "UnexpectedEvent"
    /\ SentTypes(conns[cc[MainCall].ws]) = <<"conversation.item.create">>
    /\ spoken[Len(spoken)] = error_msg

\* C19: the conversation.item.create event a call has sent is one item of type
\* message and role user whose content list has one part for every turn of
\* the conversation the call was handed, in the order of the conversation,
\* each of type input_text with that turn's content as its text, whatever the
\* turn's role; in a voice chat the conversation handed over is the whole
\* history.
C19_OnePartPerTurn ==
    \A k \in Calls :
        ItemSent(k) =>
            LET request == conns[cc[k].ws].sent[1]
                messages == cc[k].messages IN
              /\ request.type = "conversation.item.create"
              /\ request.item.type = "message"
              /\ request.item.role = "user"
              /\ DOMAIN request.item.content = DOMAIN messages
              /\ \A i \in DOMAIN messages :
                    request.item.content[i] =
                       [type |-> "input_text", text |-> messages[i].content]
              /\ (k = MainCall /\ pc = "thinking") => messages = conversation_history

\* the third call of the program has sent the system turn, a user turn whose
\* exchange failed, and the new user turn
C19_Witness ==
    /\ pc = "thinking"
    /\ ItemSent(MainCall)
    /\ Len(SentContent(MainCall)) = 3
    /\ conversation_history[2].role = "user"
    /\ conversation_history[3].role = "user"
    /\ SentContent(MainCall)[1].text = system_turn.content

\* C20: the menu is entered from the startup test only when the test turn
\* ended by a response.done event, that is, when chat_completion returned the
\* response object of that event; a test turn that ended any other way,
\* closure of the transport before response.done included, makes the program
\* exit with status 1.
C20_MenuOnlyAfterResponseDone ==
    /\ [][ (pc = "test" /\ pc' # "test")
             => IF /\ cc[MainCall].result.kind = "return"
                   /\ cc[MainCall].result.value # PyNone
                THEN pc' = "menu"
                ELSE pc' = "exited" /\ exit_code' = PyInt(1) ]_vars
    /\ [](pc \in {"menu", "listening", "thinking"}
            => \E c \in DOMAIN conns :
                  SentTypes(conns[c]) = <<"conversation.item.create", "response.create">>)
====
